---- MODULE Spec2Model ----
(***************************************************************************)
(* WriteWise (src/app.py, src/main.py): the /analyze request handler with  *)
(* its text validation, the evaluation call and its fallbacks, the result  *)
(* store under results/ and the two export handlers.                       *)
(* Spec is the pipeline of requests; ValSpec, ExtractSpec and ExportSpec   *)
(* are the validator, the extraction and the exports on their own inputs;  *)
(* StructSpec is the structuring step the evaluation's documentation asks  *)
(* for, which app.py does not have.                                        *)
(*                                                                         *)
(* A string is a sequence of runs [ch |-> c, n |-> k]: k >= 1 copies of    *)
(* the piece c.  In a text that is measured or sliced every piece is one   *)
(* character; a message or feedback entry may use a longer literal as one  *)
(* piece.  Non-ASCII letters of the literals are transliterated.           *)
(***************************************************************************)
EXTENDS Integers, Sequences, FiniteSets, TLC

\* ------------------------------------------------------------------ str

Run(c, k) == [ch |-> c, n |-> k]

\* a literal as a one-piece string
S(c) == << Run(c, 1) >>

\* str.isspace() of one character
IsSpace(c) == c \in {" ", "\n", "\t"}

RECURSIVE StrLen(_)
\* len(s)
StrLen(s) == IF s = << >> THEN 0 ELSE Head(s).n + StrLen(Tail(s))

RECURSIVE CharAt(_, _)
\* s[i - 1]: the i-th character of a string of single characters
CharAt(s, i) == IF i <= Head(s).n THEN Head(s).ch ELSE CharAt(Tail(s), i - Head(s).n)

\* the characters of s, one by one
Chars(s) == [i \in 1..StrLen(s) |-> CharAt(s, i)]

\* the string of the characters cs
Str(cs) == [i \in 1..Len(cs) |-> Run(cs[i], 1)]

RECURSIVE LStrip(_)
LStrip(s) ==
    IF s = << >> THEN << >>
    ELSE IF IsSpace(Head(s).ch) THEN LStrip(Tail(s)) ELSE s

RECURSIVE RStrip(_)
RStrip(s) ==
    IF s = << >> THEN << >>
    ELSE IF IsSpace(s[Len(s)].ch) THEN RStrip(SubSeq(s, 1, Len(s) - 1)) ELSE s

\* s.strip()
Strip(s) == RStrip(LStrip(s))

RECURSIVE SplitFrom(_, _, _)
\* the words of s after the runs already read: cur is the word being read
SplitFrom(s, cur, acc) ==
    IF s = << >> THEN (IF cur = << >> THEN acc ELSE Append(acc, cur))
    ELSE IF IsSpace(Head(s).ch)
         THEN SplitFrom(Tail(s), << >>, IF cur = << >> THEN acc ELSE Append(acc, cur))
         ELSE SplitFrom(Tail(s), Append(cur, Head(s)), acc)

\* s.split(): the maximal whitespace-free pieces of s, in order
Split(s) == SplitFrom(s, << >>, << >>)

\* s[:k] without the cut: the whole of s
SliceAll(s, k) == s

RECURSIVE Slice(_, _)
\* s[:k]
Slice(s, k) ==
    IF s = << >> \/ k <= 0 THEN << >>
    ELSE IF Head(s).n <= k
         THEN << Head(s) >> \o Slice(Tail(s), k - Head(s).n)
         ELSE << Run(Head(s).ch, k) >>

RECURSIVE Join(_, _)
\* sep.join(parts)
Join(parts, sep) ==
    IF parts = << >> THEN << >>
    ELSE IF Len(parts) = 1 THEN parts[1]
    ELSE parts[1] \o sep \o Join(Tail(parts), sep)

\* ----------------------------------------------------------- validation

MinChars == 50
MaxChars == 20000
MinWords == 10

TooShort == S("Text zu kurz (mindestens 50 Zeichen erforderlich)")
TooLong == S("Text zu lang (maximal 20.000 Zeichen)")
TooFewWords == S("Text enthaelt zu wenige Woerter fuer sinnvolle Analyse")

\* validate_text_content with the trimming of the first rule left out
validate_untrimmed(text) ==
    (IF text = << >> \/ StrLen(text) < MinChars THEN << TooShort >> ELSE << >>)
    \o (IF StrLen(text) > MaxChars THEN << TooLong >> ELSE << >>)
    \o (IF Len(Split(text)) < MinWords THEN << TooFewWords >> ELSE << >>)

\* validate_text_content with the length rule off by one (>= for >)
validate_long_off_by_one(text) ==
    (IF text = << >> \/ StrLen(Strip(text)) < MinChars THEN << TooShort >> ELSE << >>)
    \o (IF StrLen(text) >= MaxChars THEN << TooLong >> ELSE << >>)
    \o (IF Len(Split(text)) < MinWords THEN << TooFewWords >> ELSE << >>)

\* the list of issues of a text, in the order the rules are tried
validate_text_content(text) ==
    (IF text = << >> \/ StrLen(Strip(text)) < MinChars THEN << TooShort >> ELSE << >>)
    \o (IF StrLen(text) > MaxChars THEN << TooLong >> ELSE << >>)
    \o (IF Len(Split(text)) < MinWords THEN << TooFewWords >> ELSE << >>)

\* ----------------------------------------------------------------- time

\* the wall clock is a count of seconds since 1970-01-01 00:00:00
DigitCh == << "0", "1", "2", "3", "4", "5", "6", "7", "8", "9" >>

Digit(d) == Run(DigitCh[d + 1], 1)

\* %02d and %04d
Pad2(k) == << Digit((k \div 10) % 10), Digit(k % 10) >>
Pad4(k) == Pad2(k \div 100) \o Pad2(k % 100)

\* The proleptic Gregorian date of a day count (datetime's calendar), in the
\* steps of the usual era arithmetic: each step hands its results on.
CivilOfMonth(yoe, era, d, m) ==
    [year |-> yoe + era * 400 + (IF m <= 2 THEN 1 ELSE 0), month |-> m, day |-> d]

CivilOfMp(yoe, era, doy, mp) ==
    CivilOfMonth(yoe, era, doy - (153 * mp + 2) \div 5 + 1,
                 IF mp < 10 THEN mp + 3 ELSE mp - 9)

CivilOfDoy(yoe, era, doy) == CivilOfMp(yoe, era, doy, (5 * doy + 2) \div 153)

CivilOfYoe(doe, era, yoe) ==
    CivilOfDoy(yoe, era, doe - (365 * yoe + yoe \div 4 - yoe \div 100))

CivilOfDoe(doe, era) ==
    CivilOfYoe(doe, era,
               (doe - doe \div 1460 + doe \div 36524 - doe \div 146096) \div 365)

CivilOfZ(z) == CivilOfDoe(z % 146097, z \div 146097)

CivilFromDays(days) == CivilOfZ(days + 719468)

MkDateTime(c, sod) ==
    [year |-> c.year, month |-> c.month, day |-> c.day,
     hour |-> sod \div 3600, minute |-> (sod \div 60) % 60, second |-> sod % 60]

\* datetime.now() at whole seconds
DateTime(t) == MkDateTime(CivilFromDays(t \div 86400), t % 86400)

\* dt.strftime("%Y%m%d_%H%M%S")
FormatId(dt) ==
    Pad4(dt.year) \o Pad2(dt.month) \o Pad2(dt.day) \o S("_")
    \o Pad2(dt.hour) \o Pad2(dt.minute) \o Pad2(dt.second)

\* dt.isoformat(), the fraction of the second left out
FormatIso(dt) ==
    Pad4(dt.year) \o S("-") \o Pad2(dt.month) \o S("-") \o Pad2(dt.day) \o S("T")
    \o Pad2(dt.hour) \o S(":") \o Pad2(dt.minute) \o S(":") \o Pad2(dt.second)

\* datetime.now().strftime("%Y%m%d_%H%M%S") at clock reading t
strftime_id(t) == FormatId(DateTime(t))

\* datetime.now().isoformat() at clock reading t
isoformat(t) == FormatIso(DateTime(t))

\* ----------------------------------------------------------------- json

\* Python's None, a value no string equals
None == << Run("None", 0) >>

JV(tag, val) == [t |-> tag, v |-> val]

RECURSIVE FormatInt(_)
\* str(k) of a k >= 0
FormatInt(k) == IF k < 10 THEN << Digit(k) >> ELSE FormatInt(k \div 10) \o << Digit(k % 10) >>

\* the escape of one piece of a string (ensure_ascii=False)
EscCh(c) ==
    CASE c = "\"" -> "\\\""
      [] c = "\\" -> "\\\\"
      [] c = "\n" -> "\\n"
      [] c = "\t" -> "\\t"
      [] OTHER -> c

UnescCh(c) ==
    CASE c = "\\\"" -> "\""
      [] c = "\\\\" -> "\\"
      [] c = "\\n" -> "\n"
      [] c = "\\t" -> "\t"
      [] OTHER -> c

\* a string written with its quotes but no escaping
DumpStrRaw(s) == S("\"") \o s \o S("\"")

\* a JSON string: the quotes and the escaped pieces
DumpStr(s) == S("\"") \o [i \in 1..Len(s) |-> Run(EscCh(s[i].ch), s[i].n)] \o S("\"")

\* the line break and indentation of indent=2 at depth d
Newline(d) == << Run("\n", 1) >> \o (IF d > 0 THEN << Run(" ", 2 * d) >> ELSE << >>)

RECURSIVE Dump(_, _)
RECURSIVE DumpItems(_, _)
RECURSIVE DumpMembers(_, _)
\* json.dump(j, f, indent=2, ensure_ascii=False) of the value j at depth d
Dump(j, d) ==
    CASE j.t = "null" -> S("null")
      [] j.t = "bool" -> S(IF j.v THEN "true" ELSE "false")
      [] j.t = "int" -> FormatInt(j.v)
      [] j.t = "str" -> DumpStr(j.v)
      [] j.t = "arr" ->
            IF j.v = << >> THEN S("[") \o S("]")
            ELSE S("[") \o DumpItems(j.v, d + 1) \o Newline(d) \o S("]")
      [] j.t = "obj" ->
            IF j.v = << >> THEN S("{") \o S("}")
            ELSE S("{") \o DumpMembers(j.v, d + 1) \o Newline(d) \o S("}")

DumpItems(items, d) ==
    Newline(d) \o Dump(items[1], d)
    \o (IF Len(items) > 1 THEN S(",") \o DumpItems(Tail(items), d) ELSE << >>)

DumpMembers(ms, d) ==
    Newline(d) \o DumpStr(ms[1][1]) \o S(":") \o S(" ") \o Dump(ms[1][2], d)
    \o (IF Len(ms) > 1 THEN S(",") \o DumpMembers(Tail(ms), d) ELSE << >>)

\* a parse result: the value read and the text left, or a failure
Got(val, rest) == [ok |-> TRUE, val |-> val, rest |-> rest]
Bad == [ok |-> FALSE, val |-> JV("null", 0), rest |-> << >>]

\* the text after its first character
Rest1(s) == (IF Head(s).n > 1 THEN << Run(Head(s).ch, Head(s).n - 1) >> ELSE << >>) \o Tail(s)

IsDigit(c) == \E i \in 1..10 : DigitCh[i] = c
DigitVal(c) == (CHOOSE i \in 1..10 : DigitCh[i] = c) - 1

RECURSIVE ReadInt(_, _)
ReadInt(s, acc) ==
    IF s # << >> /\ IsDigit(Head(s).ch)
    THEN ReadInt(Rest1(s), 10 * acc + DigitVal(Head(s).ch))
    ELSE Got(JV("int", acc), s)

RECURSIVE ReadStr(_, _)
\* the string whose opening quote has been read, up to its closing quote
ReadStr(s, acc) ==
    IF s = << >> THEN Bad
    ELSE LET h == Head(s) IN
         IF h.ch = "\"" THEN Got(JV("str", acc), Rest1(s))
         ELSE IF h.ch = "\\"
         THEN (IF Rest1(s) = << >> THEN Bad
               ELSE ReadStr(Rest1(Rest1(s)), Append(acc, Run(Head(Rest1(s)).ch, 1))))
         ELSE ReadStr(Tail(s), Append(acc, Run(UnescCh(h.ch), h.n)))

RECURSIVE Parse(_)
RECURSIVE ReadItems(_, _)
RECURSIVE ReadMembers(_, _)
\* one JSON value at the start of s
Parse(s0) ==
    LET s == LStrip(s0) IN
    IF s = << >> THEN Bad
    ELSE LET c == Head(s).ch IN
         CASE c = "null" -> Got(JV("null", 0), Rest1(s))
           [] c = "true" -> Got(JV("bool", TRUE), Rest1(s))
           [] c = "false" -> Got(JV("bool", FALSE), Rest1(s))
           [] c = "\"" -> ReadStr(Rest1(s), << >>)
           [] c = "[" ->
                 (LET r == LStrip(Rest1(s)) IN
                  IF r # << >> /\ Head(r).ch = "]" THEN Got(JV("arr", << >>), Rest1(r))
                  ELSE ReadItems(r, << >>))
           [] c = "{" ->
                 (LET r == LStrip(Rest1(s)) IN
                  IF r # << >> /\ Head(r).ch = "}" THEN Got(JV("obj", << >>), Rest1(r))
                  ELSE ReadMembers(r, << >>))
           [] OTHER -> IF IsDigit(c) THEN ReadInt(s, 0) ELSE Bad

ReadItems(s, acc) ==
    LET p == Parse(s) IN
    IF ~p.ok THEN Bad
    ELSE LET r == LStrip(p.rest) IN
         IF r = << >> THEN Bad
         ELSE IF Head(r).ch = "," THEN ReadItems(Rest1(r), Append(acc, p.val))
         ELSE IF Head(r).ch = "]" THEN Got(JV("arr", Append(acc, p.val)), Rest1(r))
         ELSE Bad

ReadMembers(s0, acc) ==
    LET s == LStrip(s0) IN
    IF s = << >> \/ Head(s).ch # "\"" THEN Bad
    ELSE LET k == ReadStr(Rest1(s), << >>) IN
         IF ~k.ok THEN Bad
         ELSE LET c == LStrip(k.rest) IN
              IF c = << >> \/ Head(c).ch # ":" THEN Bad
              ELSE LET p == Parse(Rest1(c)) IN
                   IF ~p.ok THEN Bad
                   ELSE LET r == LStrip(p.rest)
                            m == Append(acc, << k.val.v, p.val >>)
                        IN  IF r = << >> THEN Bad
                            ELSE IF Head(r).ch = "," THEN ReadMembers(Rest1(r), m)
                            ELSE IF Head(r).ch = "}" THEN Got(JV("obj", m), Rest1(r))
                            ELSE Bad

\* the entries of a list of strings as a JSON array
StrList(xs) == JV("arr", [i \in 1..Len(xs) |-> JV("str", xs[i])])

\* a string or None as a JSON value
StrOrNull(x) == IF x = None THEN JV("null", 0) ELSE JV("str", x)

RECURSIVE PyOf(_)
\* the Python value json.load makes of a JSON value
PyOf(j) ==
    CASE j.t = "null" -> None
      [] j.t = "arr" -> [i \in 1..Len(j.v) |-> PyOf(j.v[i])]
      [] j.t = "obj" ->
            [k \in {j.v[i][1][1].ch : i \in 1..Len(j.v)} |->
                PyOf(j.v[CHOOSE i \in 1..Len(j.v) :
                            /\ j.v[i][1][1].ch = k
                            /\ \A i2 \in (i + 1)..Len(j.v) : j.v[i2][1][1].ch # k][2])]
      [] OTHER -> j.v

\* -------------------------------------------------------------- uploads

\* the extensions analyze_text admits
allowed_extensions == {".txt", ".pdf", ".docx", ".doc"}

\* ", ".join(allowed_extensions): the order a set is walked in is unspecified
\* and one order stands for all of them
AllowedJoined == Join(<< S(".txt"), S(".pdf"), S(".docx"), S(".doc") >>, S(", "))

MimeText == "text/plain"
MimePdf == "application/pdf"
MimeDocx == "application/vnd.openxmlformats-officedocument.wordprocessingml.document"
MimeDoc == "application/msword"

RECURSIVE LinesOf(_)
\* every part followed by a line break, concatenated
LinesOf(parts) ==
    IF parts = << >> THEN << >> ELSE Head(parts) \o S("\n") \o LinesOf(Tail(parts))

RECURSIVE Concat(_)
Concat(parts) == IF parts = << >> THEN << >> ELSE Head(parts) \o Concat(Tail(parts))

\* the result of a call: a value, or the message of the exception raised
Ok(x) == [ok |-> TRUE, val |-> x, err |-> << >>]
Raise(msg) == [ok |-> FALSE, val |-> << >>, err |-> msg]

\* extract_text_from_file that reads a file of any other type as text
extract_any(file) ==
    IF file.mime = MimePdf
    THEN (IF file.parse_ok THEN Ok(LinesOf(file.parts))
          ELSE Raise(S("PDF konnte nicht gelesen werden: ") \o S("EOF marker not found")))
    ELSE IF file.mime \in {MimeDocx, MimeDoc}
    THEN (IF file.parse_ok THEN Ok(LinesOf(file.parts))
          ELSE Raise(S("Word-Dokument konnte nicht gelesen werden: ")
                     \o S("File is not a zip file")))
    ELSE (IF file.utf8_ok THEN Ok(Concat(file.parts))
          ELSE Raise(S("'utf-8' codec can't decode byte")))

\* An upload: ext is the extension of its filename ("" for no file), mime the
\* type magic detects in its first bytes, parts its content (the text of a
\* text file, the page texts of a PDF, the paragraphs of a Word document),
\* utf8_ok whether its bytes decode as UTF-8 and parse_ok whether the PDF or
\* Word reader can read the container.
extract_text_from_file(file) ==
    IF file.mime = MimeText
    THEN (IF file.utf8_ok THEN Ok(Concat(file.parts))
          ELSE Raise(S("'utf-8' codec can't decode byte")))
    ELSE IF file.mime = MimePdf
    THEN (IF file.parse_ok THEN Ok(LinesOf(file.parts))
          ELSE Raise(S("PDF konnte nicht gelesen werden: ") \o S("EOF marker not found")))
    ELSE IF file.mime \in {MimeDocx, MimeDoc}
    THEN (IF file.parse_ok THEN Ok(LinesOf(file.parts))
          ELSE Raise(S("Word-Dokument konnte nicht gelesen werden: ")
                     \o S("File is not a zip file")))
    ELSE Raise(S("Nicht unterstuetztes Dateiformat: ") \o S(file.mime))

\* ------------------------------------------------------------ structure

\* The structuring step between extraction and validation that the evaluation
\* asks for (main.py, analyze_hausarbeit: the text "sollte bereits bereinigt
\* und vorstrukturiert sein", with chapter or page markers).  app.py has no
\* such step; it is modelled after section 4.2 of the specification.  It works
\* on the characters of a text and of its lines.

KapitelOpen == << "[", "K", "A", "P", "I", "T", "E", "L", ":", " " >>
Unbekannt == << "U", "n", "b", "e", "k", "a", "n", "n", "t" >>

\* the chapter marker of chapter ch
ChapterMarker(ch) == KapitelOpen \o ch \o << "]" >>

RECURSIVE SplitLinesFrom(_, _, _)
\* the lines of cs after the characters already read: cur is the line being
\* read
SplitLinesFrom(cs, cur, acc) ==
    IF cs = << >> THEN Append(acc, cur)
    ELSE IF Head(cs) = "\n" THEN SplitLinesFrom(Tail(cs), << >>, Append(acc, cur))
    ELSE SplitLinesFrom(Tail(cs), Append(cur, Head(cs)), acc)

\* the lines of a text
SplitLines(cs) == SplitLinesFrom(cs, << >>, << >>)

IsBlank(line) == \A i \in 1..Len(line) : IsSpace(line[i])

\* one or more integers separated by single dots
IsNumbering(cs) ==
    /\ cs # << >>
    /\ \A i \in 1..Len(cs) : IsDigit(cs[i]) \/ cs[i] = "."
    /\ IsDigit(cs[1]) /\ IsDigit(cs[Len(cs)])
    /\ \A i \in 1..Len(cs) - 1 : ~(cs[i] = "." /\ cs[i + 1] = ".")

\* the length of the numbering a line starts with, 0 when it starts with none
NumberingLen(line) ==
    LET ks == {k \in 1..Len(line) : IsNumbering(SubSeq(line, 1, k))} IN
    IF ks = {} THEN 0 ELSE CHOOSE k \in ks : \A j \in ks : j <= k

\* where the title of a line starts whose numbering has k characters: behind
\* the whitespace that follows the numbering
TitleStart(line, k) ==
    CHOOSE i \in (k + 1)..(Len(line) + 1) :
        /\ \A j \in (k + 1)..(i - 1) : IsSpace(line[j])
        /\ i <= Len(line) => ~IsSpace(line[i])

\* the line has the shape of a heading: a numbering, whitespace, a title
IsHeading(line) ==
    LET k == NumberingLen(line) IN
    /\ k > 0
    /\ k < Len(line) /\ IsSpace(line[k + 1])
    /\ TitleStart(line, k) <= Len(line)

\* "<number> <title>" of a heading line
ChapterOf(line) ==
    LET k == NumberingLen(line) IN
    SubSeq(line, 1, k) \o << " " >> \o SubSeq(line, TitleStart(line, k), Len(line))

\* a heading that is emitted as its marker and as a body line of itself too
structure_line_keeps_heading(line, current) ==
    IF IsBlank(line) THEN [current |-> current, out |-> << >>]
    ELSE IF IsHeading(line)
    THEN [current |-> ChapterOf(line),
          out |-> << ChapterMarker(ChapterOf(line)),
                     ChapterMarker(ChapterOf(line)) \o << " " >> \o line >>]
    ELSE [current |-> current, out |-> << ChapterMarker(current) \o << " " >> \o line >>]

\* one step of the pass: the current chapter after the line and the lines
\* emitted for it
structure_line(line, current) ==
    IF IsBlank(line) THEN [current |-> current, out |-> << >>]
    ELSE IF IsHeading(line)
    THEN [current |-> ChapterOf(line), out |-> << ChapterMarker(ChapterOf(line)) >>]
    ELSE [current |-> current, out |-> << ChapterMarker(current) \o << " " >> \o line >>]

RECURSIVE StructureFrom(_, _)
\* the lines emitted for the lines still to read under the current chapter
StructureFrom(lines, current) ==
    IF lines = << >> THEN << >>
    ELSE LET st == structure_line(Head(lines), current) IN
         st.out \o StructureFrom(Tail(lines), st.current)

RECURSIVE JoinLines(_)
\* "\n".join(lines)
JoinLines(lines) ==
    IF lines = << >> THEN << >>
    ELSE IF Len(lines) = 1 THEN lines[1]
    ELSE lines[1] \o << "\n" >> \o JoinLines(Tail(lines))

\* the structurer: the chapter-tagged text of an unstructured text
structure_text(s) == Str(JoinLines(StructureFrom(SplitLines(Chars(s)), Unbekannt)))

\* ------------------------------------------------------------- feedback

FeedbackKeys ==
    << "language_feedback", "structure_feedback", "argumentation_feedback",
       "overall_summary" >>

\* main_fallback without a summary
main_fallback_no_summary(e) ==
    [language_feedback |-> << S("Analyse fehlgeschlagen: ") \o e >>,
     structure_feedback |-> << >>,
     argumentation_feedback |-> << >>,
     overall_summary |-> None]

\* the payload analyze_hausarbeit returns when the chain raises e
main_fallback(e) ==
    [language_feedback |-> << S("Analyse fehlgeschlagen: ") \o e >>,
     structure_feedback |-> << >>,
     argumentation_feedback |-> << >>,
     overall_summary |-> S("Fehler bei der Analyse")]

create_mock_feedback ==
    [language_feedback |->
        << S("Text ist verstaendlich geschrieben"),
           S("Gute Satzstruktur erkennbar"),
           S("Echte KI-Analyse nicht verfuegbar - dies ist Mock-Daten") >>,
     structure_feedback |->
        << S("Klare Einleitung vorhanden"),
           S("Logischer Aufbau erkennbar"),
           S("Mock-Daten fuer Testing") >>,
     argumentation_feedback |->
        << S("Argumente sind nachvollziehbar"),
           S("Belege koennten staerker sein"),
           S("Verbessere mit echter KI") >>,
     overall_summary |->
        S("Gute Grundlage! Aktuell mit Mock-Daten. Echte KI folgt in der naechsten Version.")]

\* What one call of analyze_hausarbeit does: the chain answers (kind "answer",
\* payload the parsed FeedbackResponse), the chain raises (kind "chain_error",
\* err the exception's text), or building the model client raises before the
\* try block is entered (kind "init_error").
analyze_hausarbeit(outcome) ==
    IF outcome.kind = "answer" THEN Ok(outcome.payload)
    ELSE IF outcome.kind = "chain_error" THEN Ok(main_fallback(outcome.err))
    ELSE Raise(outcome.err)

\* ---------------------------------------------------------------- store

PreviewLen == 200

\* list(feedback.keys()): the keys of a payload in the order they were set
keys_of(feedback) == SelectSeq(FeedbackKeys, LAMBDA k : k \in DOMAIN feedback)

\* result_data of save_feedback as a JSON value, the members in the order the
\* dict literal gives them
result_json(result_id, now, text_preview, file_used, feedback) ==
    JV("obj", <<
        << S("id"), JV("str", result_id) >>,
        << S("timestamp"), JV("str", isoformat(now)) >>,
        << S("text_preview"), JV("str", text_preview) >>,
        << S("text_length"), JV("int", StrLen(text_preview)) >>,
        << S("file_used"), JV("bool", file_used) >>,
        << S("feedback"),
           JV("obj", [i \in 1..Len(keys_of(feedback)) |->
                << S(keys_of(feedback)[i]),
                   IF keys_of(feedback)[i] = "overall_summary"
                   THEN StrOrNull(feedback[keys_of(feedback)[i]])
                   ELSE StrList(feedback[keys_of(feedback)[i]]) >>]) >>,
        << S("analysis_categories"),
           StrList([i \in 1..Len(keys_of(feedback)) |-> S(keys_of(feedback)[i])]) >>
    >>)

\* the text json.dump writes to results/<id>.json
record_text(result_id, now, text_preview, file_used, feedback) ==
    Dump(result_json(result_id, now, text_preview, file_used, feedback), 0)

\* json.load of a record file
load(content) == PyOf(Parse(content).val)

\* save_feedback on the directory results/ (store: id -> file text) at clock
\* reading now: the id it returns and the directory it leaves
save_feedback(store, now, feedback, text_preview, file_used) ==
    LET result_id == strftime_id(now)
        content == record_text(result_id, now, text_preview, file_used, feedback)
    IN  [result_id |-> result_id,
         store |-> [k \in DOMAIN store \cup {result_id} |->
                      IF k = result_id THEN content ELSE store[k]]]

\* --------------------------------------------------------------- export

\* U+2022, the bullet the exports put before an entry
Bullet == S("U+2022")

\* feedback.get(key, default)
get(feedback, key, default) == IF key \in DOMAIN feedback THEN feedback[key] ELSE default

\* what an f-string makes of a string or None
Fmt(x) == IF x = None THEN S("None") ELSE x

RECURSIVE BulletLinesDash(_)
\* the entries of a list behind a plain "-"
BulletLinesDash(items) ==
    IF items = << >> THEN << >>
    ELSE S("-") \o S(" ") \o Fmt(Head(items)) \o S("\n") \o BulletLinesDash(Tail(items))

RECURSIVE BulletLines(_)
\* the lines export_txt writes for the entries of a list
BulletLines(items) ==
    IF items = << >> THEN << >>
    ELSE Bullet \o S(" ") \o Fmt(Head(items)) \o S("\n") \o BulletLines(Tail(items))

\* txt_content of export_txt for the loaded record data
txt_content(data) ==
    S("WriteWise Feedback - ") \o data.timestamp \o S("\n")
    \o << Run("=", 50) >> \o << Run("\n", 2) >>
    \o S("Textvorschau: ") \o data.text_preview \o << Run("\n", 2) >>
    \o S("SPRACHLICHES FEEDBACK:\n")
    \o BulletLines(get(data.feedback, "language_feedback", << >>))
    \o S("\nSTRUKTUR-FEEDBACK:\n")
    \o BulletLines(get(data.feedback, "structure_feedback", << >>))
    \o S("\nARGUMENTATION:\n")
    \o BulletLines(get(data.feedback, "argumentation_feedback", << >>))
    \o S("\nZUSAMMENFASSUNG:\n") \o Fmt(get(data.feedback, "overall_summary", << >>))
    \o S("\n")

Para(style, txt) == [style |-> style, text |-> txt]

\* the flowables create_pdf_feedback hands to the document builder, the
\* spacers left out
pdf_content(data) ==
    << Para("title", S("WriteWise - Feedback Report")),
       Para("normal", S("<b>Analyse-Datum:</b> ") \o data.timestamp),
       Para("normal", S("<b>Textlaenge:</b> ") \o FormatInt(data.text_length)
                      \o S(" Zeichen")),
       Para("heading", S("<b>Textvorschau:</b>")),
       Para("normal", data.text_preview \o S("...")),
       Para("heading", S("<b>Sprachliches Feedback</b>")) >>
    \o [i \in 1..Len(get(data.feedback, "language_feedback", << >>)) |->
          Para("normal", Bullet \o S(" ") \o Fmt(data.feedback.language_feedback[i]))]
    \o << Para("heading", S("<b>Struktur und Aufbau</b>")) >>
    \o [i \in 1..Len(get(data.feedback, "structure_feedback", << >>)) |->
          Para("normal", Bullet \o S(" ") \o Fmt(data.feedback.structure_feedback[i]))]
    \o << Para("heading", S("<b>Argumentation</b>")) >>
    \o [i \in 1..Len(get(data.feedback, "argumentation_feedback", << >>)) |->
          Para("normal", Bullet \o S(" ") \o Fmt(data.feedback.argumentation_feedback[i]))]
    \o << Para("heading", S("<b>Zusammenfassung</b>")),
          Para("normal", get(data.feedback, "overall_summary",
                             S("Keine Zusammenfassung verfuegbar"))) >>

\* the file create_pdf_feedback builds at clock reading now: the flowables
\* laid out, and the creation date the builder writes into the document
\* information (SimpleDocTemplate.build, line 223)
create_pdf_feedback(data, now) == [content |-> pdf_content(data), created |-> now]

\* ---------------------------------------------------------------- state

\* bounds of the model
MaxTicks == 1
MaxExports == 1

\* 2024-12-31 23:59:59, one second before the year turns
ClockStart == 20089 * 86400 - 1

\* The analyze requests in flight.  The handlers share nothing but the clock
\* and the directories, and every claim about their interference is about a
\* pair of requests.
Requests == {1, 2}

VARIABLES
    clock,              \* the wall clock, in seconds
    KI_VERFUEGBAR,      \* whether main.analyze_hausarbeit could be imported
    results,            \* results/: id -> text of results/<id>.json
    uploads,            \* uploads/: file name -> the upload saved under it
    exports,            \* exports/: [kind, id] -> the export file written
    export_resp,        \* the response of the latest export request
    n_exports,          \* export requests handled
    pc,                 \* where each analyze request stands
    text,               \* analyze_text's local text
    file_used,          \* analyze_text's local file_used
    file,               \* the upload of the request: request.files['file']
    filename,           \* the name the upload was saved under, or None
    validation_issues,  \* analyze_text's local validation_issues
    ki_query,           \* the text analyze_hausarbeit was called with, or None
    ki_result,          \* how that call ended (kept for the properties)
    feedback,           \* analyze_text's local feedback
    result_id,          \* analyze_text's local result_id
    response            \* the JSON response of the request, or None

vars == << clock, KI_VERFUEGBAR, results, uploads, exports, export_resp, n_exports,
           pc, text, file_used, file, filename, validation_issues, ki_query,
           ki_result, feedback, result_id, response >>

store_vars == << results, uploads, exports, export_resp, n_exports >>
req_vars == << pc, text, file_used, file, filename, validation_issues, ki_query,
               ki_result, feedback, result_id, response >>

\* --------------------------------------------------------------- inputs

RECURSIVE WordsText(_, _)
\* nw words of wl letters each, one space between two words
WordsText(nw, wl) ==
    IF nw = 0 THEN << >>
    ELSE IF nw = 1 THEN << Run("x", wl) >>
    ELSE << Run("x", wl), Run(" ", 1) >> \o WordsText(nw - 1, wl)

\* lead spaces, the words, trail line breaks
MkText(lead, nw, wl, trail) ==
    (IF lead > 0 THEN << Run(" ", lead) >> ELSE << >>)
    \o WordsText(nw, wl)
    \o (IF trail > 0 THEN << Run("\n", trail) >> ELSE << >>)

TextOk == MkText(0, 10, 5, 0)
TextLong == MkText(0, 10, 30, 0) \o << Run(" ", 1), Run("\"", 2) >>
TextShort == MkText(0, 1, 10, 0)

\* a request that carries the form field text and no file
FormInput(t) ==
    [ext |-> "", mime |-> "", utf8_ok |-> TRUE, parse_ok |-> TRUE, parts |-> << >>,
     form_text |-> t]

\* a request that carries an upload
FileInput(ext, mime, utf8, parse, parts) ==
    [ext |-> ext, mime |-> mime, utf8_ok |-> utf8, parse_ok |-> parse, parts |-> parts,
     form_text |-> << >>]

\* the requests of the pipeline model
Inputs ==
    { FormInput(TextLong), FormInput(TextShort),
      FileInput(".xyz", MimeText, TRUE, TRUE, << TextOk >>),
      FileInput(".txt", "image/png", TRUE, TRUE, << TextOk >>),
      FileInput(".txt", MimeText, TRUE, TRUE, << TextOk >>),
      FileInput(".txt", MimeText, TRUE, TRUE, << TextShort >>) }

\* the texts of the validation model
ValTexts ==
    { MkText(lead, nw, wl, trail) :
        lead \in {0, 1}, nw \in {0, 1, 9, 10, 11},
        wl \in {1, 4, 5, 10, 2000, 20000, 20001, 50000, 100000, 100001},
        trail \in {0, 2} }

\* the page texts of the extraction model: no text, and texts of six, five and
\* one word
PageTexts == { << >>, MkText(0, 6, 5, 0), MkText(0, 5, 4, 0), MkText(0, 1, 3, 0) }

\* the most pages a PDF of the extraction model has
MaxPages == 3

\* the uploads of the extraction model: PDFs of up to MaxPages pages, a PDF
\* the reader cannot parse, and text files whose bytes decode as UTF-8 or not
ExtractFiles ==
    { FileInput(".pdf", MimePdf, TRUE, TRUE, pages) :
        pages \in UNION { [1..n -> PageTexts] : n \in 0..MaxPages } }
    \cup { FileInput(".pdf", MimePdf, TRUE, FALSE, << >>) }
    \cup { FileInput(".txt", MimeText, utf8, TRUE, << t >>) :
             utf8 \in BOOLEAN, t \in {TextOk, TextShort, TextLong} }

\* the lines of the structuring model: two headings, two body lines, an
\* empty line, a line of spaces, a numbering without whitespace behind it and
\* a numbering without a title
LineEinleitung == << "1", " ", "E", "i", "n", "l", "e", "i", "t", "u", "n", "g" >>
LineHallo == << "H", "a", "l", "l", "o", " ", "W", "e", "l", "t" >>
LineMethodik == << "2", ".", "1", " ", "M", "e", "t", "h", "o", "d", "i", "k" >>
LineText == << "T", "e", "x", "t", " ", "h", "i", "e", "r" >>
LineEmpty == <<  >>
LineSpaces == << " ", " " >>
LineNoSpace == << "1", ".", "E", "i", "n", "l", "e", "i", "t", "u", "n", "g" >>
LineNumber == << "3" >>

StructLines == { LineEinleitung, LineHallo, LineMethodik, LineText, LineEmpty, LineSpaces, LineNoSpace, LineNumber }

\* the most lines a text of the structuring model has, the example apart
MaxLines == 3

\* the text file of the lines ls: a line break between two lines
LinesFile(ls) ==
    FileInput(".txt", MimeText, TRUE, TRUE,
              [i \in 1..Len(ls) |-> Str(ls[i] \o (IF i < Len(ls) THEN << "\n" >> ELSE << >>))])

\* "1 Einleitung\nHallo Welt\n2.1 Methodik\nText hier"
ExampleLines == << LineEinleitung, LineHallo, LineMethodik, LineText >>

\* the uploads of the structuring model
StructFiles ==
    { LinesFile(ls) : ls \in UNION { [1..n -> StructLines] : n \in 0..MaxLines } }
    \cup { LinesFile(ExampleLines) }

\* a local that holds a mapping and is not set yet
Unset == [unset |-> TRUE]

\* the answer of the evaluation chain: entries with a quote, a backslash and a
\* line break, an empty list, an empty entry and no summary
AnswerOdd ==
    [language_feedback |-> << << Run("\"", 1), Run("x", 2), Run("\\", 1) >>, S("\n") >>,
     structure_feedback |-> << >>,
     argumentation_feedback |-> << << >> >>,
     overall_summary |-> None]

\* an answer of one entry a list and a summary
AnswerPlain ==
    [language_feedback |-> << S("A") >>,
     structure_feedback |-> << S("B") >>,
     argumentation_feedback |-> << S("C") >>,
     overall_summary |-> S("D")]

\* the answers of the export model
ExportOutcomes ==
    { [kind |-> "answer", payload |-> AnswerPlain, err |-> << >>],
      [kind |-> "answer", payload |-> AnswerOdd, err |-> << >>] }

\* the requests of the export model
ExportInputs == { FormInput(TextOk) }

\* the export requests the export model handles
MaxReexports == 2

\* what a call of analyze_hausarbeit can do
KiOutcomes ==
    { [kind |-> "answer", payload |-> AnswerOdd, err |-> << >>],
      [kind |-> "chain_error", payload |-> Unset, err |-> S("Request timed out.")],
      [kind |-> "init_error", payload |-> Unset,
       err |-> S("The api_key client option must be set")] }

\* the ids an export can be asked for: the id of the first second, and the id
\* of the second before it, under which nothing is ever saved
ExportIds == { strftime_id(ClockStart), strftime_id(ClockStart - 1) }

\* ----------------------------------------------------------------- init

\* no export was asked for yet; data is the record file an export read, and
\* again says that the export before it sent its file for the same id in the
\* same form from the same record file (kept for the properties)
NoResp == [kind |-> "none", id |-> << >>, status |-> "none", body |-> << >>,
           data |-> << >>, again |-> FALSE]

\* a list that is not set yet
NoIssues == << None >>
NoFile == [ext |-> "", mime |-> "", utf8_ok |-> TRUE, parse_ok |-> TRUE, parts |-> << >>]

Init ==
    /\ clock = ClockStart
    /\ KI_VERFUEGBAR \in BOOLEAN
    /\ results = << >>
    /\ uploads = << >>
    /\ exports = << >>
    /\ export_resp = NoResp
    /\ n_exports = 0
    /\ pc = [r \in Requests |-> "idle"]
    /\ text = [r \in Requests |-> << >>]
    /\ file_used = [r \in Requests |-> FALSE]
    /\ file = [r \in Requests |-> NoFile]
    /\ filename = [r \in Requests |-> None]
    /\ validation_issues = [r \in Requests |-> NoIssues]
    /\ ki_query = [r \in Requests |-> None]
    /\ ki_result = [r \in Requests |-> "none"]
    /\ feedback = [r \in Requests |-> Unset]
    /\ result_id = [r \in Requests |-> None]
    /\ response = [r \in Requests |-> Unset]

\* -------------------------------------------------------------- actions

ErrorResponse(msg) == [success |-> FALSE, error |-> msg]

\* analyze_text up to its validation (lines 279-321) for the request inp at
\* clock reading now: the locals it leaves, the file it saved under uploads/
\* (saved: filename is its name) and its response when it returns here
analyze_begin(inp, now) ==
    LET has_file == inp.ext # ""
        ex == extract_text_from_file(inp)
        name == S("upload_") \o strftime_id(now) \o S(inp.ext)
        txt == IF has_file THEN ex.val ELSE inp.form_text
        issues == validate_text_content(txt)
        stop(resp) == [pc |-> "done", text |-> << >>, file_used |-> FALSE,
                       filename |-> None, issues |-> NoIssues, response |-> resp]
    IN  IF has_file /\ inp.ext \notin allowed_extensions
        THEN stop(ErrorResponse(S("Nicht unterstuetztes Dateiformat. Erlaubt: ")
                                \o AllowedJoined))
        ELSE IF has_file /\ ~ex.ok
        THEN stop(ErrorResponse(S("Datei-Verarbeitung fehlgeschlagen: ") \o ex.err))
        ELSE [pc |-> IF issues = << >> THEN "ki" ELSE "done",
              text |-> txt,
              file_used |-> has_file,
              filename |-> IF has_file THEN name ELSE None,
              issues |-> issues,
              response |-> IF issues = << >> THEN Unset
                           ELSE ErrorResponse(S("Textvalidierung fehlgeschlagen: ")
                                              \o Join(issues, S("; ")))]

\* a request arrives and runs to the end of its validation (the requests are
\* alike, and they are numbered in the order they arrive)
Analyze(r, inp) ==
    /\ pc[r] = "idle"
    /\ \A q \in Requests : q < r => pc[q] # "idle"
    /\ LET o == analyze_begin(inp, clock) IN
        /\ pc' = [pc EXCEPT ![r] = o.pc]
        /\ text' = [text EXCEPT ![r] = o.text]
        /\ file_used' = [file_used EXCEPT ![r] = o.file_used]
        /\ file' = [file EXCEPT ![r] = [ext |-> inp.ext, mime |-> inp.mime,
                                        utf8_ok |-> inp.utf8_ok,
                                        parse_ok |-> inp.parse_ok,
                                        parts |-> inp.parts]]
        /\ filename' = [filename EXCEPT ![r] = o.filename]
        /\ validation_issues' = [validation_issues EXCEPT ![r] = o.issues]
        /\ response' = [response EXCEPT ![r] = o.response]
        /\ uploads' = IF o.filename = None THEN uploads
                      ELSE [k \in DOMAIN uploads \cup {o.filename} |->
                              IF k = o.filename THEN inp ELSE uploads[k]]
    /\ UNCHANGED << clock, KI_VERFUEGBAR, results, exports, export_resp, n_exports,
                    ki_query, ki_result, feedback, result_id >>

\* lines 324-331 without the inner try: an exception of the call reaches the
\* handler's outer except and the request ends with a server error
ki_step_unguarded(outcome) ==
    LET res == analyze_hausarbeit(outcome) IN
    IF res.ok THEN [pc |-> "save", feedback |-> res.val, response |-> Unset]
    ELSE [pc |-> "done", feedback |-> Unset,
          response |-> ErrorResponse(S("Server Fehler: ") \o res.err)]

\* lines 324-331: the evaluation is called, and the mock payload stands in
\* when the call raises
ki_step(outcome) ==
    LET res == analyze_hausarbeit(outcome) IN
    [pc |-> "save",
     feedback |-> IF res.ok THEN res.val ELSE create_mock_feedback,
     response |-> Unset]

\* lines 324-331 when the call of analyze_hausarbeit ends as outcome
EvaluateWith(r, outcome) ==
    /\ pc[r] = "ki"
    /\ KI_VERFUEGBAR
    /\ LET st == ki_step(outcome) IN
        /\ feedback' = [feedback EXCEPT ![r] = st.feedback]
        /\ pc' = [pc EXCEPT ![r] = st.pc]
        /\ response' = [response EXCEPT ![r] = st.response]
        /\ ki_result' = [ki_result EXCEPT ![r] = outcome.kind]
    /\ ki_query' = [ki_query EXCEPT ![r] = text[r]]
    /\ UNCHANGED << clock, KI_VERFUEGBAR, text, file_used, file, filename,
                    validation_issues, result_id >>
    /\ UNCHANGED store_vars

EvaluateKi(r) == \E outcome \in KiOutcomes : EvaluateWith(r, outcome)

\* lines 332-334: no evaluation module, the mock payload is used
EvaluateMock(r) ==
    /\ pc[r] = "ki"
    /\ ~KI_VERFUEGBAR
    /\ feedback' = [feedback EXCEPT ![r] = create_mock_feedback]
    /\ ki_result' = [ki_result EXCEPT ![r] = "unavailable"]
    /\ pc' = [pc EXCEPT ![r] = "save"]
    /\ UNCHANGED << clock, KI_VERFUEGBAR, text, file_used, file, filename,
                    validation_issues, ki_query, result_id, response >>
    /\ UNCHANGED store_vars

\* lines 337-348: the result is saved and the success response returned
Save(r) ==
    /\ pc[r] = "save"
    /\ LET sv == save_feedback(results, clock, feedback[r], Slice(text[r], PreviewLen),
                               file_used[r]) IN
        /\ results' = sv.store
        /\ result_id' = [result_id EXCEPT ![r] = sv.result_id]
        /\ response' = [response EXCEPT ![r] =
                          [success |-> TRUE,
                           feedback |-> feedback[r],
                           ki_verwendet |-> KI_VERFUEGBAR,
                           result_id |-> sv.result_id,
                           file_used |-> file_used[r],
                           text_length |-> StrLen(text[r]),
                           timestamp |-> isoformat(clock)]]
    /\ pc' = [pc EXCEPT ![r] = "done"]
    /\ UNCHANGED << clock, KI_VERFUEGBAR, uploads, exports, export_resp, n_exports,
                    text, file_used, file, filename, validation_issues, ki_query,
                    ki_result, feedback >>

\* the response resp, given after the latest response so far
Following(resp) ==
    [kind |-> resp.kind, id |-> resp.id, status |-> resp.status, body |-> resp.body,
     data |-> resp.data,
     again |-> /\ resp.status = "sent" /\ export_resp.status = "sent"
               /\ resp.kind = export_resp.kind /\ resp.id = export_resp.id
               /\ resp.data = export_resp.data]

NotFound(kind, id) ==
    [kind |-> kind, id |-> id, status |-> "not_found",
     body |-> S("Ergebnis nicht gefunden"), data |-> << >>]

\* txt_content whose header line carries the time of the export in place of
\* the record's timestamp
txt_content_now(data) ==
    S("WriteWise Feedback - ") \o isoformat(clock) \o S("\n")
    \o << Run("=", 50) >> \o << Run("\n", 2) >>
    \o S("Textvorschau: ") \o data.text_preview \o << Run("\n", 2) >>
    \o S("SPRACHLICHES FEEDBACK:\n")
    \o BulletLines(get(data.feedback, "language_feedback", << >>))
    \o S("\nSTRUKTUR-FEEDBACK:\n")
    \o BulletLines(get(data.feedback, "structure_feedback", << >>))
    \o S("\nARGUMENTATION:\n")
    \o BulletLines(get(data.feedback, "argumentation_feedback", << >>))
    \o S("\nZUSAMMENFASSUNG:\n") \o Fmt(get(data.feedback, "overall_summary", << >>))
    \o S("\n")

\* export_txt(id) that writes the time of the export into the header line
ExportTxtStamped(id) ==
    /\ n_exports' = n_exports + 1
    /\ IF id \notin DOMAIN results
       THEN /\ export_resp' = Following(NotFound("txt", id))
            /\ UNCHANGED exports
       ELSE IF ~Parse(results[id]).ok
       THEN /\ export_resp' = Following([kind |-> "txt", id |-> id, status |-> "error",
                               body |-> S("Export fehlgeschlagen: "),
                               data |-> << >>])
            /\ UNCHANGED exports
       ELSE LET content == txt_content_now(load(results[id]))
                path == [kind |-> "txt", id |-> id]
            IN  /\ exports' = [k \in DOMAIN exports \cup {path} |->
                                 IF k = path THEN content ELSE exports[k]]
                /\ export_resp' = Following([kind |-> "txt", id |-> id, status |-> "sent",
                                   body |-> content, data |-> results[id]])
    /\ UNCHANGED << clock, KI_VERFUEGBAR, results, uploads >>
    /\ UNCHANGED req_vars

\* export_txt(id) without the test that the record file exists: opening the
\* missing file raises, and the handler answers with its export error
ExportTxtNoCheck(id) ==
    /\ n_exports' = n_exports + 1
    /\ IF id \notin DOMAIN results \/ ~Parse(results[id]).ok
       THEN /\ export_resp' = Following([kind |-> "txt", id |-> id, status |-> "error",
                               body |-> S("Export fehlgeschlagen: "),
                               data |-> << >>])
            /\ UNCHANGED exports
       ELSE LET content == txt_content(load(results[id]))
                path == [kind |-> "txt", id |-> id]
            IN  /\ exports' = [k \in DOMAIN exports \cup {path} |->
                                 IF k = path THEN content ELSE exports[k]]
                /\ export_resp' = Following([kind |-> "txt", id |-> id, status |-> "sent",
                                   body |-> content, data |-> results[id]])
    /\ UNCHANGED << clock, KI_VERFUEGBAR, results, uploads >>
    /\ UNCHANGED req_vars

\* export_txt(id)
ExportTxt(id) ==
    /\ n_exports' = n_exports + 1
    /\ IF id \notin DOMAIN results
       THEN /\ export_resp' = Following(NotFound("txt", id))
            /\ UNCHANGED exports
       ELSE IF ~Parse(results[id]).ok
       THEN /\ export_resp' = Following([kind |-> "txt", id |-> id, status |-> "error",
                               body |-> S("Export fehlgeschlagen: "),
                               data |-> << >>])
            /\ UNCHANGED exports
       ELSE LET content == txt_content(load(results[id]))
                path == [kind |-> "txt", id |-> id]
            IN  /\ exports' = [k \in DOMAIN exports \cup {path} |->
                                 IF k = path THEN content ELSE exports[k]]
                /\ export_resp' = Following([kind |-> "txt", id |-> id, status |-> "sent",
                                   body |-> content, data |-> results[id]])
    /\ UNCHANGED << clock, KI_VERFUEGBAR, results, uploads >>
    /\ UNCHANGED req_vars

\* export_pdf(id); built says whether the document builder accepts the
\* flowables (a summary of None is not text, and what the builder does with
\* it is left open)
ExportPdf(id) ==
    /\ n_exports' = n_exports + 1
    /\ IF id \notin DOMAIN results
       THEN /\ export_resp' = Following(NotFound("pdf", id))
            /\ UNCHANGED exports
       ELSE IF ~Parse(results[id]).ok
       THEN /\ export_resp' = Following([kind |-> "pdf", id |-> id, status |-> "error",
                               body |-> S("PDF-Export fehlgeschlagen: "),
                               data |-> << >>])
            /\ UNCHANGED exports
       ELSE LET data == load(results[id])
                path == [kind |-> "pdf", id |-> id]
                pdf == create_pdf_feedback(data, clock)
            IN  \E built \in (IF data.feedback.overall_summary = None
                              THEN BOOLEAN ELSE {TRUE}) :
                   IF built
                   THEN /\ exports' = [k \in DOMAIN exports \cup {path} |->
                                         IF k = path THEN pdf ELSE exports[k]]
                        /\ export_resp' = Following([kind |-> "pdf", id |-> id, status |-> "sent",
                                           body |-> pdf, data |-> results[id]])
                   ELSE /\ export_resp' = Following([kind |-> "pdf", id |-> id, status |-> "error",
                                           body |-> S("PDF-Export fehlgeschlagen: "),
                                           data |-> results[id]])
                        /\ UNCHANGED exports
    /\ UNCHANGED << clock, KI_VERFUEGBAR, results, uploads >>
    /\ UNCHANGED req_vars

\* a second passes
Tick ==
    /\ clock < ClockStart + MaxTicks
    /\ clock' = clock + 1
    /\ UNCHANGED << KI_VERFUEGBAR, results, uploads, exports, export_resp, n_exports >>
    /\ UNCHANGED req_vars

Next ==
    \/ \E r \in Requests, inp \in Inputs : Analyze(r, inp)
    \/ \E r \in Requests : EvaluateKi(r)
    \/ \E r \in Requests : EvaluateMock(r)
    \/ \E r \in Requests : Save(r)
    \/ \E id \in ExportIds : n_exports < MaxExports /\ ExportTxt(id)
    \/ \E id \in ExportIds : n_exports < MaxExports /\ ExportPdf(id)
    \/ Tick

Spec == Init /\ [][Next]_vars

\* save_feedback returns and the handler answers.  The steps of Next that take
\* pc[r] from "save" to "done" are exactly the steps Save(r), and Save(r) is
\* enabled exactly when pc[r] = "save".
SaveReturns(r) == pc[r] = "save" /\ pc' = [pc EXCEPT ![r] = "done"]

\* Every step of a request that has passed validation is taken in the end:
\* the evaluation call returns or raises (its client times out), and the
\* handler thread is scheduled.
Fairness ==
    \A r \in Requests :
        WF_vars(EvaluateKi(r)) /\ WF_vars(EvaluateMock(r)) /\ WF_pc(SaveReturns(r))

LiveSpec == Spec /\ Fairness

\* the validator alone: one request posts a text of ValTexts
ValNext == \E t \in ValTexts : Analyze(1, FormInput(t))

ValSpec == Init /\ [][ValNext]_vars

\* a text file is extracted and its text structured: the step the pipeline
\* of the specification takes between extraction and validation
Structure(r, f) ==
    /\ pc[r] = "idle"
    /\ extract_text_from_file(f).ok
    /\ text' = [text EXCEPT ![r] = structure_text(extract_text_from_file(f).val)]
    /\ file' = [file EXCEPT ![r] = [ext |-> f.ext, mime |-> f.mime,
                                    utf8_ok |-> f.utf8_ok, parse_ok |-> f.parse_ok,
                                    parts |-> f.parts]]
    /\ file_used' = [file_used EXCEPT ![r] = TRUE]
    /\ pc' = [pc EXCEPT ![r] = "structured"]
    /\ UNCHANGED << clock, KI_VERFUEGBAR, filename, validation_issues, ki_query,
                    ki_result, feedback, result_id, response >>
    /\ UNCHANGED store_vars

\* the exports: requests that save an answer of ExportOutcomes or the mock
\* payload, and up to MaxReexports exports of their records
ExportNext ==
    \/ \E r \in Requests, inp \in ExportInputs : Analyze(r, inp)
    \/ \E r \in Requests, outcome \in ExportOutcomes : EvaluateWith(r, outcome)
    \/ \E r \in Requests : EvaluateMock(r)
    \/ \E r \in Requests : Save(r)
    \/ \E id \in ExportIds : n_exports < MaxReexports /\ ExportTxt(id)
    \/ \E id \in ExportIds : n_exports < MaxReexports /\ ExportPdf(id)
    \/ Tick

ExportSpec == Init /\ [][ExportNext]_vars

\* the structurer alone: one request uploads a text file of StructFiles
StructNext == \E f \in StructFiles : Structure(1, f)

StructSpec == Init /\ [][StructNext]_vars

\* the extraction alone: one request uploads a file of ExtractFiles
ExtractNext == \E f \in ExtractFiles : Analyze(1, f)

ExtractSpec == Init /\ [][ExtractNext]_vars

\* ----------------------------------------------------------- properties

Has(seq, x) == \E i \in 1..Len(seq) : seq[i] = x

\* a message holds the piece c
Contains(msg, c) == \E i \in 1..Len(msg) : msg[i].ch = c

\* the length of a text between its first and its last character that is
\* not whitespace
TrimmedLen(t) ==
    LET solid == {i \in 1..Len(t) : ~IsSpace(t[i].ch)} IN
    IF solid = {} THEN 0
    ELSE StrLen(SubSeq(t, CHOOSE i \in solid : \A j \in solid : i <= j,
                          CHOOSE i \in solid : \A j \in solid : j <= i))

\* the number of places of a text where a word starts
WordCount(t) ==
    Cardinality({i \in 1..Len(t) : ~IsSpace(t[i].ch) /\ (i = 1 \/ IsSpace(t[i - 1].ch))})

\* the code point of a character of an id
CharCode(c) == IF IsDigit(c) THEN 48 + DigitVal(c) ELSE 95

RECURSIVE LexLess(_, _)
\* a < b for two strings of single characters
LexLess(a, b) ==
    IF b = << >> THEN FALSE
    ELSE IF a = << >> THEN TRUE
    ELSE IF Head(a).ch = Head(b).ch THEN LexLess(Tail(a), Tail(b))
    ELSE CharCode(Head(a).ch) < CharCode(Head(b).ch)

\* request r has saved a record
Saved(r) == pc[r] = "done" /\ result_id[r] # None

\* request r has reached its validation, and the validation found issues
Validated(r) == validation_issues[r] # NoIssues
ValidationFailed(r) == Validated(r) /\ validation_issues[r] # << >>

\* the record request r handed to the store
RecordOf(r) ==
    [id |-> result_id[r],
     timestamp |-> response[r].timestamp,
     text_preview |-> Slice(text[r], PreviewLen),
     text_length |-> StrLen(Slice(text[r], PreviewLen)),
     file_used |-> file_used[r],
     feedback |-> feedback[r],
     analysis_categories |-> [i \in 1..Len(keys_of(feedback[r])) |->
                                 S(keys_of(feedback[r])[i])]]

\* C1: any two saves, also two in the same clock second or from concurrent
\* requests, return distinct ids and write distinct records, and the ids sort
\* lexicographically in the order of the clock.
C1_DistinctIds ==
    /\ \A r1, r2 \in Requests :
          r1 # r2 /\ Saved(r1) /\ Saved(r2) => result_id[r1] # result_id[r2]
    /\ Cardinality(DOMAIN results) = Cardinality({r \in Requests : Saved(r)})
    /\ \A i, j \in 0..MaxTicks :
          i < j => LexLess(strftime_id(ClockStart + i), strftime_id(ClockStart + j))

\* C2: once a request has saved its record, loading its id returns that
\* record with every field unchanged, whatever is saved or exported later.
C2_RecordsUnchanged ==
    \A r \in Requests :
        Saved(r) => /\ result_id[r] \in DOMAIN results
                    /\ Parse(results[result_id[r]]).ok
                    /\ load(results[result_id[r]]) = RecordOf(r)

\* C3: the record loaded under the id a save returns holds the feedback
\* mapping the save was given (the step Save(r) is the save, and the record
\* is read in the state it leaves).
C3_LoadAfterSave ==
    [][\A r \in Requests :
          pc[r] = "save" /\ pc'[r] = "done" =>
             /\ result_id'[r] \in DOMAIN results'
             /\ Parse(results'[result_id'[r]]).ok
             /\ load(results'[result_id'[r]]).feedback = feedback[r]]_vars

\* a save without an upload (file_used false) of a payload with quotes, a
\* backslash, a line break, an empty entry and no summary, read back intact
C3_Witness ==
    \E r \in Requests :
        /\ Saved(r) /\ ~file_used[r] /\ feedback[r] = AnswerOdd
        /\ Parse(results[result_id[r]]).ok
        /\ load(results[result_id[r]]).feedback = AnswerOdd

\* C4: when the validation returns an issue, the request does nothing more:
\* no evaluation call, no record saved, nothing persisted (no upload file
\* either), and the error carries all issues joined with "; ".
C4_NothingAfterIssues ==
    \A r \in Requests :
        ValidationFailed(r) =>
            /\ pc[r] = "done"
            /\ ki_query[r] = None /\ ki_result[r] = "none"
            /\ result_id[r] = None
            /\ filename[r] = None
            /\ ~response[r].success
            /\ response[r].error = S("Textvalidierung fehlgeschlagen: ")
                                   \o Join(validation_issues[r], S("; "))

\* request r ended well: a success response and its record in the store
Completed(r) ==
    /\ pc[r] = "done"
    /\ response[r].success
    /\ response[r].result_id \in DOMAIN results

\* C5: a request whose text passes the validation ends with a success
\* response and a saved record, whether the evaluation answers, fails or is
\* not available; it never ends with an error.
C5_ValidatedCompletes ==
    /\ [](\A r \in Requests :
             validation_issues[r] = << >> /\ pc[r] = "done" => Completed(r))
    /\ \A r \in Requests : (validation_issues[r] = << >>) ~> Completed(r)

\* a request completed although building the model client raised, and one
\* although the chain raised
C5_Witness ==
    /\ \E r \in Requests : Completed(r) /\ ki_result[r] = "init_error"
    /\ \E r \in Requests : Completed(r) /\ ki_result[r] = "chain_error"

\* the evaluation of request r was called and failed
EvalFailed(r) == ki_result[r] \in {"chain_error", "init_error"}

FourKeys ==
    {"language_feedback", "structure_feedback", "argumentation_feedback",
     "overall_summary"}

\* C6 as claimed: whenever the evaluation fails the feedback is a payload
\* with exactly the four keys whose three lists and summary are all non-empty.
C6_FallbackNonEmpty ==
    \A r \in Requests :
        EvalFailed(r) =>
            /\ DOMAIN feedback[r] = FourKeys
            /\ feedback[r].language_feedback # << >>
            /\ feedback[r].structure_feedback # << >>
            /\ feedback[r].argumentation_feedback # << >>
            /\ feedback[r].overall_summary \notin {None, << >>}

\* C6 as amended: whenever the evaluation fails the feedback has exactly the
\* four keys, a non-empty language list and a non-empty summary, and it is
\* what the response returns; it is the fixed mock payload when the call
\* raises, and when the chain fails inside the call the structure and
\* argumentation lists are empty and the one language entry is the error.
C6_FallbackShape ==
    \A r \in Requests :
        EvalFailed(r) =>
            /\ DOMAIN feedback[r] = FourKeys
            /\ feedback[r].language_feedback # << >>
            /\ feedback[r].overall_summary \notin {None, << >>}
            /\ ki_result[r] = "init_error" => feedback[r] = create_mock_feedback
            /\ ki_result[r] = "chain_error" =>
                  /\ feedback[r].structure_feedback = << >>
                  /\ feedback[r].argumentation_feedback = << >>
                  /\ Len(feedback[r].language_feedback) = 1
                  /\ Head(feedback[r].language_feedback[1]).ch = "Analyse fehlgeschlagen: "
            /\ pc[r] = "done" => response[r].success /\ response[r].feedback = feedback[r]

\* a request whose chain failed has been answered, and one whose call raised
C6_Witness ==
    /\ \E r \in Requests : pc[r] = "done" /\ ki_result[r] = "chain_error"
    /\ \E r \in Requests : pc[r] = "done" /\ ki_result[r] = "init_error"

\* C7: the rules of the validator are tried independently and all issues are
\* returned: TooShort exactly for fewer than 50 characters after trimming,
\* TooFewWords exactly for fewer than 10 words, both for one word of 10
\* characters, and no issue exactly when no rule triggers.
C7_ValidatorRules ==
    \A r \in Requests :
        Validated(r) =>
            /\ Has(validation_issues[r], TooShort) <=> TrimmedLen(text[r]) < 50
            /\ Has(validation_issues[r], TooFewWords) <=> WordCount(text[r]) < 10
            /\ validation_issues[r] = << >> <=>
                  /\ TrimmedLen(text[r]) >= 50
                  /\ ~Has(validation_issues[r], TooLong)
                  /\ WordCount(text[r]) >= 10
            /\ text[r] = << Run("x", 10) >> =>
                  validation_issues[r] = << TooShort, TooFewWords >>

\* one word of 10 characters was validated, and so was a text of 10 words
\* and 49 characters
C7_Witness ==
    \E r \in Requests :
        /\ Validated(r)
        /\ \/ text[r] = << Run("x", 10) >>
           \/ WordCount(text[r]) >= 10 /\ TrimmedLen(text[r]) = 49
        /\ Has(validation_issues[r], TooShort)

\* C8 as claimed: TooLong is returned exactly when the raw text has more than
\* 100,000 characters.
C8_TooLongOver100000 ==
    \A r \in Requests :
        Validated(r) => (Has(validation_issues[r], TooLong) <=> StrLen(text[r]) > 100000)

\* C8 as amended: TooLong is returned exactly when the raw (untrimmed) text
\* has more than 20,000 characters.
C8_TooLongOver20000 ==
    \A r \in Requests :
        Validated(r) => (Has(validation_issues[r], TooLong) <=> StrLen(text[r]) > 20000)

\* a text of at most 100,000 characters was found too long
C8_Witness ==
    \E r \in Requests :
        Validated(r) /\ Has(validation_issues[r], TooLong) /\ StrLen(text[r]) <= 100000

SupportedMimes == {MimeText, MimePdf, MimeDocx, MimeDoc}

\* the upload of request r is refused for its extension, for its detected type
ExtRejected(r) == file[r].ext # "" /\ file[r].ext \notin allowed_extensions
MimeRejected(r) == file[r].ext \in allowed_extensions /\ file[r].mime \notin SupportedMimes

\* request r ended with an error, produced no text, called no evaluation and
\* wrote neither a record nor an upload
RefusedClean(r) ==
    /\ pc[r] = "done"
    /\ ~response[r].success
    /\ text[r] = << >>
    /\ ki_query[r] = None /\ ki_result[r] = "none"
    /\ result_id[r] = None
    /\ filename[r] = None

\* C9 as claimed: an upload of an unsupported format fails with an error that
\* names the detected extension or type, with no text, no evaluation call and
\* no store write.
C9_ErrorNamesFormat ==
    \A r \in Requests :
        /\ ExtRejected(r) => RefusedClean(r) /\ Contains(response[r].error, file[r].ext)
        /\ MimeRejected(r) => RefusedClean(r) /\ Contains(response[r].error, file[r].mime)

\* C9 as amended: an upload whose extension is not allowed fails with an
\* error that lists the allowed extensions and does not name the refused one;
\* an upload whose detected type is unsupported fails with an error that names
\* the type; in both cases there is no text, no evaluation call and no write.
C9_Refused ==
    \A r \in Requests :
        /\ ExtRejected(r) =>
              /\ RefusedClean(r)
              /\ \A e \in allowed_extensions : Contains(response[r].error, e)
              /\ ~Contains(response[r].error, file[r].ext)
        /\ MimeRejected(r) => RefusedClean(r) /\ Contains(response[r].error, file[r].mime)

\* an upload was refused for its extension while another was refused for its
\* type, and nothing was written
C9_Witness ==
    /\ \E r \in Requests : ExtRejected(r) /\ pc[r] = "done"
    /\ \E r \in Requests : MimeRejected(r) /\ pc[r] = "done"
    /\ results = << >> /\ uploads = << >>

\* C10: an export of an id under which nothing was saved reports NotFound,
\* writes no export file and leaves the store as it is; no export file exists
\* for an id without a record.
C10_ExportNotFound ==
    /\ [](\A path \in DOMAIN exports : path.id \in DOMAIN results)
    /\ [][n_exports' # n_exports /\ export_resp'.id \notin DOMAIN results =>
             /\ export_resp'.status = "not_found"
             /\ exports' = exports
             /\ results' = results
             /\ uploads' = uploads]_vars

\* an export was refused although the store holds records under other ids
C10_Witness ==
    /\ export_resp.status = "not_found"
    /\ export_resp.id \notin DOMAIN results
    /\ DOMAIN results # {}
    /\ exports = << >>

\* p is a prefix of t, character by character
IsPrefix(p, t) ==
    /\ StrLen(p) <= StrLen(t)
    /\ \A i \in 1..StrLen(p) : CharAt(p, i) = CharAt(t, i)

\* C11: the text_preview of every saved record is at most 200 characters long
\* and is a prefix of the text of a request that saved under that id, a text
\* that passed the validation without issues and is the text the evaluation
\* was called with when it was called.
C11_PreviewIsPrefix ==
    \A id \in DOMAIN results :
        LET preview == load(results[id]).text_preview IN
        /\ StrLen(preview) <= PreviewLen
        /\ \E r \in Requests :
              /\ Saved(r) /\ result_id[r] = id
              /\ IsPrefix(preview, text[r])
              /\ validation_issues[r] = << >>
              /\ validate_text_content(text[r]) = << >>
              /\ ki_query[r] # None => ki_query[r] = text[r]

\* a request with a text of more than 200 characters has saved, and the
\* preview of its record holds exactly the first 200
C11_Witness ==
    \E r \in Requests :
        /\ Saved(r) /\ StrLen(text[r]) > PreviewLen
        /\ StrLen(load(results[result_id[r]]).text_preview) = PreviewLen
        /\ IsPrefix(load(results[result_id[r]]).text_preview, text[r])

\* C18: when a request saves, the text_length of the record it writes equals
\* the length of the analyzed text, the text_length its response reports.
C18_SavedTextLength ==
    [][\A r \in Requests :
          pc[r] = "save" /\ pc'[r] = "done" =>
              /\ load(results'[result_id'[r]]).text_length = response'[r].text_length
              /\ load(results'[result_id'[r]]).text_length = StrLen(text[r])]_vars

\* the characters of lit stand in t from its i-th character on
StandsAt(t, i, lit) ==
    /\ i + Len(lit) - 1 <= StrLen(t)
    /\ \A k \in 1..Len(lit) : CharAt(t, i + k - 1) = lit[k]

\* t carries the start of a chapter marker or of a page marker
HasMarker(t) ==
    \E i \in 1..StrLen(t) :
        \/ StandsAt(t, i, << "[", "K", "A", "P", "I", "T", "E", "L", ":", " " >>)
        \/ StandsAt(t, i, << "[", "S", "E", "I", "T", "E", " " >>)

\* C14: the text the evaluation is called with is the structured and
\* normalized text, which carries chapter or page markers the structuring put
\* in, and the call comes after a validation without issues.
C14_EvaluatedTextIsStructured ==
    \A r \in Requests :
        ki_query[r] # None =>
            /\ validation_issues[r] = << >>
            /\ HasMarker(ki_query[r])

\* the digit of a page number below ten
PageDigit(n) == CHOOSE d \in {"1", "2", "3", "4", "5", "6", "7", "8", "9"} : DigitVal(d) = n

\* the page marker of page n stands somewhere in t
HasPageMarker(t, n) ==
    \E i \in 1..StrLen(t) :
        StandsAt(t, i, << "[", "S", "E", "I", "T", "E", " ", PageDigit(n), "]" >>)

\* request r uploaded a PDF the reader could parse, and its text was extracted
PdfExtracted(r) ==
    /\ pc[r] # "idle" /\ file[r].mime = MimePdf /\ file[r].parse_ok
    /\ validation_issues[r] # NoIssues

\* C15: the text extracted from a valid PDF carries the page marker of page n
\* for exactly the pages n that yield text; a page without text leaves no
\* marker.
C15_PageMarkers ==
    \A r \in Requests :
        PdfExtracted(r) =>
            \A n \in 1..Len(file[r].parts) :
                HasPageMarker(text[r], n) <=> file[r].parts[n] # << >>

\* request r uploaded a text file whose bytes do not decode as UTF-8
UndecodableTxt(r) ==
    /\ pc[r] # "idle"
    /\ file[r].ext = ".txt" /\ file[r].mime = MimeText /\ ~file[r].utf8_ok

\* C16: a text upload with undecodable bytes is extracted all the
\* same, and the request goes on to the validation of the extracted text.
C16_UndecodableTolerated ==
    \A r \in Requests :
        UndecodableTxt(r) =>
            /\ Validated(r)
            /\ text[r] # << >>
            /\ pc[r] = "done" =>
                  response[r].success
                  \/ response[r].error[1].ch # "Datei-Verarbeitung fehlgeschlagen: "

\* the i-th line of the file of request r, its line break left out
FileLine(r, i) ==
    LET cs == Chars(file[r].parts[i]) IN
    IF cs # << >> /\ cs[Len(cs)] = "\n" THEN SubSeq(cs, 1, Len(cs) - 1) ELSE cs

\* the lines of the file of request r that are not blank
SolidLines(r) == {i \in 1..Len(file[r].parts) : ~IsBlank(FileLine(r, i))}

\* the chapter that is current behind line i: that of the last heading up to
\* line i, and "Unbekannt" when there is none
ChapterAt(r, i) ==
    LET heads == {j \in SolidLines(r) : j <= i /\ IsHeading(FileLine(r, j))} IN
    IF heads = {} THEN Unbekannt
    ELSE ChapterOf(FileLine(r, CHOOSE j \in heads : \A h \in heads : h <= j))

\* the line the structuring is to emit for the solid line i
EmittedFor(r, i) ==
    IF IsHeading(FileLine(r, i)) THEN ChapterMarker(ChapterAt(r, i))
    ELSE ChapterMarker(ChapterAt(r, i)) \o << " " >> \o FileLine(r, i)

\* the lines the structuring is to emit for the file of request r, in order
EmittedLines(r) ==
    [k \in 1..Cardinality(SolidLines(r)) |->
        EmittedFor(r, CHOOSE i \in SolidLines(r) :
                          Cardinality({j \in SolidLines(r) : j <= i}) = k)]

ExampleOut ==
    << "[", "K", "A", "P", "I", "T", "E", "L", ":", " ", "1", " ", "E", "i", "n", "l", "e", "i", "t", "u", "n", "g", "]", "\n", "[", "K", "A", "P", "I", "T", "E", "L", ":", " ", "1", " ", "E", "i", "n", "l", "e", "i", "t", "u", "n", "g", "]", " ", "H", "a", "l", "l", "o", " ", "W", "e", "l", "t", "\n", "[", "K", "A", "P", "I", "T", "E", "L", ":", " ", "2", ".", "1", " ", "M", "e", "t", "h", "o", "d", "i", "k", "]", "\n", "[", "K", "A", "P", "I", "T", "E", "L", ":", " ", "2", ".", "1", " ", "M", "e", "t", "h", "o", "d", "i", "k", "]", " ", "T", "e", "x", "t", " ", "h", "i", "e", "r" >>

\* C17: the structured text holds one line for every line of the input that
\* is not blank, in order: for a heading its chapter marker alone, for any
\* other line the line behind the marker of the last heading before it, or of
\* "Unbekannt" before the first heading; the example text gives exactly the
\* four lines of the example.
C17_Structured ==
    \A r \in Requests :
        pc[r] = "structured" =>
            /\ Chars(text[r]) = JoinLines(EmittedLines(r))
            /\ file[r] = [k \in DOMAIN file[r] |-> LinesFile(ExampleLines)[k]]
                  => Chars(text[r]) = ExampleOut

\* the example text was structured, and so was a text with a body line before
\* its first heading and a blank line
C17_Witness ==
    \E r \in Requests :
        /\ pc[r] = "structured"
        /\ Chars(text[r]) = ExampleOut
        /\ Len(file[r].parts) = 4

\* the places of the piece c in a text
Places(b, c) == {i \in 1..Len(b) : b[i].ch = c}

\* the piece c stands exactly once in b
Once(b, c) == Cardinality(Places(b, c)) = 1

\* the place of a piece that stands once
PlaceOf(b, c) == CHOOSE i \in Places(b, c) : TRUE

RECURSIVE EntryLines(_, _)
\* one line an entry: the prefix, a space, the entry, a line break
EntryLines(items, prefix) ==
    IF items = << >> THEN << >>
    ELSE S(prefix) \o S(" ") \o Fmt(Head(items)) \o S("\n")
         \o EntryLines(Tail(items), prefix)

\* the text b renders the record data: the four section headings stand once
\* each and in the order language, structure, argumentation, summary; under
\* each of the first three stand the entries of its list, one line an entry
\* behind the prefix; behind the last stands the summary as the closing line
RendersSections(b, data, prefix) ==
    /\ Once(b, "SPRACHLICHES FEEDBACK:\n") /\ Once(b, "\nSTRUKTUR-FEEDBACK:\n")
    /\ Once(b, "\nARGUMENTATION:\n") /\ Once(b, "\nZUSAMMENFASSUNG:\n")
    /\ LET l == PlaceOf(b, "SPRACHLICHES FEEDBACK:\n")
           st == PlaceOf(b, "\nSTRUKTUR-FEEDBACK:\n")
           a == PlaceOf(b, "\nARGUMENTATION:\n")
           z == PlaceOf(b, "\nZUSAMMENFASSUNG:\n")
       IN  /\ l < st /\ st < a /\ a < z
           /\ SubSeq(b, l + 1, st - 1) = EntryLines(data.feedback.language_feedback, prefix)
           /\ SubSeq(b, st + 1, a - 1) = EntryLines(data.feedback.structure_feedback, prefix)
           /\ SubSeq(b, a + 1, z - 1)
                = EntryLines(data.feedback.argumentation_feedback, prefix)
           /\ SubSeq(b, z + 1, Len(b)) = Fmt(data.feedback.overall_summary) \o S("\n")

\* the entries A, B, C and D stand once each in b, and in that order
EntriesInOrder(b) ==
    /\ Once(b, "A") /\ Once(b, "B") /\ Once(b, "C") /\ Once(b, "D")
    /\ PlaceOf(b, "A") < PlaceOf(b, "B")
    /\ PlaceOf(b, "B") < PlaceOf(b, "C")
    /\ PlaceOf(b, "C") < PlaceOf(b, "D")

\* the latest export was a text export that sent its file
TxtSent == export_resp.kind = "txt" /\ export_resp.status = "sent"

\* C12 as claimed: the text export renders the sections in the fixed order,
\* every list entry as one line behind a plain "-" and the summary as the
\* closing paragraph, and for the lists A, B, C and the summary D the four
\* entries stand once each and in that order.
C12_TextExportDash ==
    TxtSent =>
        /\ RendersSections(export_resp.body, load(export_resp.data), "-")
        /\ load(export_resp.data).feedback = AnswerPlain => EntriesInOrder(export_resp.body)

\* C12: the same with the bullet U+2022 for the "-".
C12_TextExportBullet ==
    TxtSent =>
        /\ export_resp.body = exports[[kind |-> "txt", id |-> export_resp.id]]
        /\ RendersSections(export_resp.body, load(export_resp.data), "U+2022")
        /\ load(export_resp.data).feedback = AnswerPlain => EntriesInOrder(export_resp.body)

\* the record with the lists A, B, C and the summary D was exported as text
C12_Witness ==
    /\ TxtSent
    /\ load(export_resp.data).feedback = AnswerPlain
    /\ Places(export_resp.body, "U+2022") # {}

\* a step that handles an export request for the id and in the form of the
\* export request before it, where both read the same record file and both
\* send their file
RepeatedExport ==
    /\ n_exports' # n_exports
    /\ export_resp.status = "sent" /\ export_resp'.status = "sent"
    /\ export_resp'.kind = export_resp.kind
    /\ export_resp'.id = export_resp.id
    /\ export_resp'.data = export_resp.data

\* C13 as claimed: two exports of the same id in the same form that read the
\* same record send identical files, and no export changes the result store.
C13_ExportsIdentical ==
    [][/\ n_exports' # n_exports => results' = results
       /\ RepeatedExport => export_resp'.body = export_resp.body]_vars

\* C13: two text exports of the same record send identical files, two
\* document exports of the same record render the same flowables, every file
\* sent is the file under exports/, and no export changes the result store.
C13_ExportsSameContent ==
    [][/\ n_exports' # n_exports => results' = results
       /\ RepeatedExport =>
            /\ export_resp.kind = "txt" => export_resp'.body = export_resp.body
            /\ export_resp.kind = "pdf" =>
                  export_resp'.body.content = export_resp.body.content
            /\ exports'[[kind |-> export_resp.kind, id |-> export_resp.id]]
                 = export_resp'.body]_vars

\* a record was exported twice in the same form, the second time in a later
\* second than it was saved
C13_Witness ==
    /\ export_resp.again
    /\ export_resp.status = "sent"
    /\ clock > ClockStart
    /\ export_resp.id \in DOMAIN results
    /\ export_resp.kind = "pdf" => export_resp.body.created = clock

====
